---- MODULE Spec2Model ----
(***************************************************************************)
(* A model of p-queue (source/index.ts, source/priority-queue.ts,          *)
(* source/lower-bound.ts): the PQueue scheduler with its concurrency cap,  *)
(* its fixed-window and strict (sliding-window) rate limiters, the task    *)
(* runner of add() and the priority queue of waiting tasks.                *)
(*                                                                         *)
(* JavaScript is single-threaded: every action below is one synchronous    *)
(* run of a handler (a public method call, a microtask, a timer callback). *)
(* Handlers are written as operators from a queue record `s` to a queue    *)
(* record, composed the way the methods call each other.                   *)
(***************************************************************************)
EXTENDS Integers, Sequences, FiniteSets, TLC

\* ------------------------------------------------------------------ bounds
MaxTasks == 3
MaxTime == 4

\* Number.POSITIVE_INFINITY for concurrency and intervalCap: no counter of the
\* model reaches it.
Infinity == MaxTasks + 1

\* The start-index threshold of the tick buffer's compaction.
CompactThreshold == 100

TaskIds == 1..MaxTasks

VARIABLES
    \* the carry-over options as passed to the constructor
    options,
    \* options, fixed by the constructor
    strict, interval, intervalCap, carryoverIntervalCount,
    \* fields of PQueue
    pending, concurrency, isPaused, queue,
    intervalCount, intervalEnd, lastExecutionTime, intervalId, timeoutId,
    strictTicks, strictTicksStartIndex,
    rateLimitedInInterval, rateLimitFlushScheduled, runningTasks, idAssigner,
    \* the environment: the clock, the microtask queue, the tasks passed to add
    now, microtasks, task,
    \* history: the times at which task functions were invoked, and the waiting
    \* tasks in the order of their latest enqueue
    starts, arrival,
    \* observers: the events that have a recording listener (fixed for a run),
    \* what the latest handler emitted to them, and whether a future of
    \* onEmpty() / onIdle() is outstanding
    listeners, emitted, waiters,
    \* the error the latest call threw synchronously ("none" if it returned)
    thrown

cfgVars == <<options, strict, interval, intervalCap, carryoverIntervalCount, listeners>>
vars == <<options, strict, interval, intervalCap, carryoverIntervalCount,
          pending, concurrency, isPaused, queue,
          intervalCount, intervalEnd, lastExecutionTime, intervalId, timeoutId,
          strictTicks, strictTicksStartIndex,
          rateLimitedInInterval, rateLimitFlushScheduled, runningTasks, idAssigner,
          now, microtasks, task, starts, arrival, listeners, emitted, waiters, thrown>>

\* The element of a singleton: the({f(x) : x \in {e}}) is f(e), with e
\* evaluated once however often f refers to x.
the(S) == CHOOSE x \in S : TRUE

\* ------------------------------------------------------------------ the queue as a record
St ==
    [pending |-> pending, concurrency |-> concurrency, isPaused |-> isPaused,
     queue |-> queue, intervalCount |-> intervalCount, intervalEnd |-> intervalEnd,
     lastExecutionTime |-> lastExecutionTime, intervalId |-> intervalId,
     timeoutId |-> timeoutId, strictTicks |-> strictTicks,
     strictTicksStartIndex |-> strictTicksStartIndex,
     rateLimitedInInterval |-> rateLimitedInInterval,
     rateLimitFlushScheduled |-> rateLimitFlushScheduled,
     runningTasks |-> runningTasks, idAssigner |-> idAssigner, microtasks |-> microtasks, task |-> task,
     starts |-> starts, arrival |-> arrival, emitted |-> <<>>, waiters |-> waiters,
     thrown |-> "none"]

\* The handler has returned: its result s becomes the state of the queue.
Commit(s) ==
    \E r \in {s} :
        /\ pending' = r.pending
        /\ concurrency' = r.concurrency
        /\ isPaused' = r.isPaused
        /\ queue' = r.queue
        /\ intervalCount' = r.intervalCount
        /\ intervalEnd' = r.intervalEnd
        /\ lastExecutionTime' = r.lastExecutionTime
        /\ intervalId' = r.intervalId
        /\ timeoutId' = r.timeoutId
        /\ strictTicks' = r.strictTicks
        /\ strictTicksStartIndex' = r.strictTicksStartIndex
        /\ rateLimitedInInterval' = r.rateLimitedInInterval
        /\ rateLimitFlushScheduled' = r.rateLimitFlushScheduled
        /\ runningTasks' = r.runningTasks
        /\ idAssigner' = r.idAssigner
        /\ microtasks' = r.microtasks
        /\ task' = r.task
        /\ starts' = r.starts
        /\ arrival' = r.arrival
        /\ emitted' = r.emitted
        /\ thrown' = r.thrown
        /\ waiters' = r.waiters
        /\ UNCHANGED cfgVars

\* options.id of a call of add() that gives no id.
NoId == ""

\* A task that add() has not been given yet. A task whose next step has run
\* leaves this record with st = "done": its closure is garbage, and of its
\* history only `sound` (see exactlyOnce) and whether its function is still
\* executing are kept.
NewTask ==
    [st |-> "new", id |-> NoId, given |-> NoId, priority |-> 0, signal |-> "none", timeout |-> 0, throws |-> FALSE,
     reprio |-> FALSE, startTime |-> 0, timeoutAt |-> 0, fnLive |-> FALSE,
     invoked |-> 0, completed |-> 0, errored |-> 0, resolved |-> 0, rejected |-> 0,
     reason |-> "none", restored |-> TRUE, finalised |-> 0, sound |-> TRUE]

\* The history of a task at the time its next step runs: one event, one
\* settlement of its future, one deferred next step, at most one invocation.
exactlyOnce(r) ==
    /\ r.completed + r.errored = 1
    /\ r.resolved + r.rejected = 1
    /\ r.finalised = 1
    /\ r.invoked <= 1

isIntervalIgnored == intervalCap = Infinity \/ interval = 0

\* ------------------------------------------------------------------ events
\* The events of the emitter, and two points of a task's run that its owner
\* observes: "invoke", the call of the task function, and "then", the run of a
\* continuation attached to the future that add() returned.
EventNames ==
    {"active", "add", "completed", "error", "empty", "idle", "next", "pendingZero",
     "rateLimit", "rateLimitCleared", "invoke", "then"}

NoWaiters == [e \in {"empty", "idle", "pendingZero", "error"} |-> FALSE]

\* A listener of onError() that rejects and stays attached.
handleError_staysOn(s, e, t) ==
    IF e = "error" /\ s.waiters["error"]
    THEN [s EXCEPT !.emitted = IF "rejected" \in listeners
                               THEN Append(@, [e |-> "rejected", of |-> t,
                                               size |-> Len(s.queue), pending |-> s.pending])
                               ELSE @]
    ELSE s

\* handleError of onError() on the emit of e with the error of task t: while
\* the future of onError() is outstanding, an `error` event detaches the
\* listener and rejects the future with that error, which its owner observes.
handleError(s, e, t) ==
    IF e = "error" /\ s.waiters["error"]
    THEN [s EXCEPT !.waiters["error"] = FALSE,
                   !.emitted = IF "rejected" \in listeners
                               THEN Append(@, [e |-> "rejected", of |-> t,
                                               size |-> Len(s.queue), pending |-> s.pending])
                               ELSE @]
    ELSE s

\* this.emit(e) for task t (0: none): the one-shot listeners of #onEvent
\* resolve their futures and leave; a recording listener notes the event with
\* size and pending as they are at that point.
emit(s, e, t) ==
    the({handleError([r EXCEPT !.emitted = IF e \in listeners
                                           THEN Append(@, [e |-> e, of |-> t,
                                                           size |-> Len(r.queue),
                                                           pending |-> r.pending])
                                           ELSE @,
                               !.waiters = IF e \in DOMAIN @ /\ e # "error"
                                           THEN [@ EXCEPT ![e] = FALSE]
                                           ELSE @],
                     e, t)
         : r \in {s}})

\* ------------------------------------------------------------------ priority queue
size(s) == Len(s.queue)

\* comp(a, b) of enqueue: b.priority - a.priority
comp(a, b) == b.priority - a.priority

RECURSIVE lowerBoundLoop_strictLess(_, _, _, _)
lowerBoundLoop_strictLess(array, value, first, count) ==
    IF count > 0
    THEN LET step == count \div 2
             it == first + step
         IN IF comp(array[it + 1], value) < 0
            THEN lowerBoundLoop_strictLess(array, value, it + 1, count - (step + 1))
            ELSE lowerBoundLoop_strictLess(array, value, first, step)
    ELSE first

RECURSIVE lowerBoundLoop(_, _, _, _)
lowerBoundLoop(array, value, first, count) ==
    IF count > 0
    THEN LET step == count \div 2
             it == first + step
         IN IF comp(array[it + 1], value) <= 0
            THEN lowerBoundLoop(array, value, it + 1, count - (step + 1))
            ELSE lowerBoundLoop(array, value, first, step)
    ELSE first

\* The 0-based insertion index; array[it + 1] is the element at 0-based it.
lowerBound(array, value) == lowerBoundLoop(array, value, 0, Len(array))

splice(array, index, element) ==
    SubSeq(array, 1, index) \o <<element>> \o SubSeq(array, index + 1, Len(array))

\* An enqueue that ignores the priority.
enqueue_append(q, element) == Append(q, element)

enqueue(q, element) ==
    IF Len(q) = 0 \/ q[Len(q)].priority >= element.priority
    THEN Append(q, element)
    ELSE splice(q, lowerBound(q, element), element)

findIndex(q, id) ==
    IF \E i \in 1..Len(q) : q[i].id = id
    THEN CHOOSE i \in 1..Len(q) : q[i].id = id /\ \A j \in 1..(i - 1) : q[j].id # id
    ELSE 0

removeAt(q, i) == SubSeq(q, 1, i - 1) \o SubSeq(q, i + 1, Len(q))

dequeue(q) == Tail(q)

RECURSIVE without(_, _)
without(seq, ids) ==
    IF seq = <<>> THEN <<>>
    ELSE IF Head(seq) \in ids THEN without(Tail(seq), ids)
    ELSE <<Head(seq)>> \o without(Tail(seq), ids)

queueSetPriority_keepsOld(q, id, priority) ==
    LET index == findIndex(q, id)
        item == q[index]
    IN enqueue(q, [priority |-> priority, id |-> id, run |-> item.run])

\* PriorityQueue.setPriority: the first element with the id is taken out and
\* enqueued again with the new priority.
queueSetPriority(q, id, priority) ==
    LET index == findIndex(q, id)
        item == q[index]
    IN enqueue(removeAt(q, index), [priority |-> priority, id |-> id, run |-> item.run])

\* ------------------------------------------------------------------ rate limiter
RECURSIVE expireTicks_early(_, _, _)
expireTicks_early(ticks, index, t) ==
    IF index < Len(ticks) /\ t - ticks[index + 1] >= interval - 1
    THEN expireTicks_early(ticks, index + 1, t)
    ELSE index

RECURSIVE expireTicks(_, _, _)
expireTicks(ticks, index, t) ==
    IF index < Len(ticks) /\ t - ticks[index + 1] >= interval
    THEN expireTicks(ticks, index + 1, t)
    ELSE index

cleanupStrictTicks(s, t) ==
    LET index == expireTicks(s.strictTicks, s.strictTicksStartIndex, t)
        length == Len(s.strictTicks)
        shouldCompact == (index > CompactThreshold /\ 2 * index > length) \/ index = length
    IN IF shouldCompact
       THEN [s EXCEPT !.strictTicks = SubSeq(s.strictTicks, index + 1, length),
                      !.strictTicksStartIndex = 0]
       ELSE [s EXCEPT !.strictTicksStartIndex = index]

consumeIntervalSlot(s, t) ==
    IF strict
    THEN [s EXCEPT !.strictTicks = Append(@, t)]
    ELSE [s EXCEPT !.intervalCount = @ + 1]

rollbackIntervalSlot_none(s) == s

rollbackIntervalSlot(s) ==
    IF strict
    THEN IF Len(s.strictTicks) > s.strictTicksStartIndex
         THEN [s EXCEPT !.strictTicks = SubSeq(@, 1, Len(@) - 1)]
         ELSE s
    ELSE IF s.intervalCount > 0
         THEN [s EXCEPT !.intervalCount = @ - 1]
         ELSE s

getActiveTicksCount(s) == Len(s.strictTicks) - s.strictTicksStartIndex

doesIntervalAllowAnother(s) ==
    IF isIntervalIgnored THEN TRUE
    ELSE IF strict THEN getActiveTicksCount(s) < intervalCap
    ELSE s.intervalCount < intervalCap

doesConcurrentAllowAnother_offByOne(s) == s.pending <= s.concurrency

doesConcurrentAllowAnother(s) == s.pending < s.concurrency

\* setTimeout(() => this.#onResumeInterval(), delay): the timer is its deadline,
\* 0 when there is none (the clock starts at 1).
createIntervalTimeout(s, delay) ==
    IF s.timeoutId # 0 THEN s ELSE [s EXCEPT !.timeoutId = now + delay]

clearIntervalTimer(s) == [s EXCEPT !.intervalId = 0]

clearTimeoutTimer(s) == [s EXCEPT !.timeoutId = 0]

\* A window reset that never carries running tasks over.
windowReset_alwaysZero(s) == 0

\* The value a window reset gives to #intervalCount.
windowReset(s) == IF carryoverIntervalCount THEN s.pending ELSE 0

\* Returns the queue after the call and the call's result.
isIntervalPausedAt(s, t) ==
    IF strict
    THEN LET c == cleanupStrictTicks(s, t)
         IN IF getActiveTicksCount(c) >= intervalCap
            THEN LET oldestTick == c.strictTicks[c.strictTicksStartIndex + 1]
                 IN [s |-> createIntervalTimeout(c, interval - (t - oldestTick)), r |-> TRUE]
            ELSE [s |-> c, r |-> FALSE]
    ELSE IF s.intervalId = 0
         THEN LET delay == s.intervalEnd - t
              IN IF delay < 0
                 THEN IF s.lastExecutionTime > 0 /\ t - s.lastExecutionTime < interval
                      THEN [s |-> createIntervalTimeout(s, interval - (t - s.lastExecutionTime)),
                            r |-> TRUE]
                      ELSE [s |-> [s EXCEPT !.intervalCount = windowReset(s)], r |-> FALSE]
                 ELSE [s |-> createIntervalTimeout(s, delay), r |-> TRUE]
         ELSE [s |-> s, r |-> FALSE]

initializeIntervalIfNeeded(s) ==
    IF isIntervalIgnored \/ s.intervalId # 0 THEN s
    ELSE IF strict THEN s
    ELSE [s EXCEPT !.intervalId = now + interval, !.intervalEnd = now + interval]

initializeIntervalIfNeeded_when(canInitializeInterval, s) ==
    IF canInitializeInterval THEN initializeIntervalIfNeeded(s) ELSE s

queueMicrotask(s, kind, t) == [s EXCEPT !.microtasks = Append(@, [kind |-> kind, of |-> t])]

scheduleRateLimitUpdate(s) ==
    IF isIntervalIgnored \/ s.rateLimitFlushScheduled THEN s
    ELSE queueMicrotask([s EXCEPT !.rateLimitFlushScheduled = TRUE], "flush", 0)

\* A rollback that also gives back the concurrency slot, which #next gives
\* back again.
rollbackIntervalConsumption_releasesPending(s) == [s EXCEPT !.pending = @ - 1]

rollbackIntervalConsumption(s) ==
    IF isIntervalIgnored THEN s
    ELSE scheduleRateLimitUpdate(rollbackIntervalSlot(s))

updateRateLimitState_keepsFlagOnEmpty(s) ==
    LET previous == s.rateLimitedInInterval
    IN IF isIntervalIgnored \/ size(s) = 0
       THEN s
       ELSE LET c == IF strict THEN cleanupStrictTicks(s, now) ELSE s
                count == IF strict THEN getActiveTicksCount(c) ELSE c.intervalCount
                shouldBeRateLimited == count >= intervalCap
            IN IF shouldBeRateLimited # previous
               THEN emit([c EXCEPT !.rateLimitedInInterval = shouldBeRateLimited],
                         IF shouldBeRateLimited THEN "rateLimit" ELSE "rateLimitCleared", 0)
               ELSE c

updateRateLimitState_everyEvaluation(s) ==
    LET previous == s.rateLimitedInInterval
    IN IF isIntervalIgnored \/ size(s) = 0
       THEN IF previous
            THEN emit([s EXCEPT !.rateLimitedInInterval = FALSE], "rateLimitCleared", 0)
            ELSE s
       ELSE LET c == IF strict THEN cleanupStrictTicks(s, now) ELSE s
                count == IF strict THEN getActiveTicksCount(c) ELSE c.intervalCount
                shouldBeRateLimited == count >= intervalCap
            IN emit([c EXCEPT !.rateLimitedInInterval = shouldBeRateLimited],
                    IF shouldBeRateLimited THEN "rateLimit" ELSE "rateLimitCleared", 0)

updateRateLimitState(s) ==
    LET previous == s.rateLimitedInInterval
    IN IF isIntervalIgnored \/ size(s) = 0
       THEN IF previous
            THEN emit([s EXCEPT !.rateLimitedInInterval = FALSE], "rateLimitCleared", 0)
            ELSE s
       ELSE LET c == IF strict THEN cleanupStrictTicks(s, now) ELSE s
                count == IF strict THEN getActiveTicksCount(c) ELSE c.intervalCount
                shouldBeRateLimited == count >= intervalCap
            IN IF shouldBeRateLimited # previous
               THEN emit([c EXCEPT !.rateLimitedInInterval = shouldBeRateLimited],
                         IF shouldBeRateLimited THEN "rateLimit" ELSE "rateLimitCleared", 0)
               ELSE c

\* ------------------------------------------------------------------ task runner
\* resolve() / reject() of the future that add() returned queue the reaction of
\* a continuation attached to it, when its owner observes it.
continuation_atOnce(s, t) == IF "then" \in listeners THEN emit(s, "then", t) ELSE s

continuation(s, t) == IF "then" \in listeners THEN queueMicrotask(s, "then", t) ELSE s

\* A settlement whose finalisation is not deferred: pending is decremented
\* inside the admission that ran the job.
settle_finalisesAtOnce(s, t, why) ==
    LET ok == why = "ok"
        s1 == [s EXCEPT !.task[t].st = "settled",
                        !.task[t].reason = why,
                        !.task[t].resolved = IF ok THEN @ + 1 ELSE @,
                        !.task[t].completed = IF ok THEN @ + 1 ELSE @,
                        !.task[t].rejected = IF ok THEN @ ELSE @ + 1,
                        !.task[t].errored = IF ok THEN @ ELSE @ + 1,
                        !.task[t].finalised = @ + 1,
                        !.runningTasks = @ \ {t}]
        s2 == emit(continuation(s1, t), IF ok THEN "completed" ELSE "error", t)
    IN IF why = "abort"
       THEN [s2 EXCEPT !.pending = @ - 1,
                       !.task[t] = [NewTask EXCEPT !.st = "done",
                                                   !.sound = exactlyOnce(s2.task[t]),
                                                   !.fnLive = s2.task[t].fnLive]]
       ELSE queueMicrotask(s2, "next", t)

settle_failureSkipsNext(s, t, why) ==
    LET ok == why = "ok"
        s1 == [s EXCEPT !.task[t].st = "settled",
                        !.task[t].reason = why,
                        !.task[t].resolved = IF ok THEN @ + 1 ELSE @,
                        !.task[t].completed = IF ok THEN @ + 1 ELSE @,
                        !.task[t].rejected = IF ok THEN @ ELSE @ + 1,
                        !.task[t].errored = IF ok THEN @ ELSE @ + 1,
                        !.task[t].finalised = IF why \in {"fail", "throw"} THEN @ ELSE @ + 1,
                        !.runningTasks = @ \ {t}]
    IN IF why \in {"fail", "throw"} THEN s1 ELSE queueMicrotask(s1, "next", t)

\* resolve(result); emit('completed') or reject(error); emit('error'), then the
\* finally block: the task leaves runningTasks and its next step is deferred.
\* The promise hops between the settlement of `operation` and the continuation
\* of `await operation` run with nothing of the queue in between, so the
\* settlement and this continuation are one step.
settle(s, t, why) ==
    LET ok == why = "ok"
        s1 == [s EXCEPT !.task[t].st = "settled",
                        !.task[t].reason = why,
                        !.task[t].resolved = IF ok THEN @ + 1 ELSE @,
                        !.task[t].completed = IF ok THEN @ + 1 ELSE @,
                        !.task[t].rejected = IF ok THEN @ ELSE @ + 1,
                        !.task[t].errored = IF ok THEN @ ELSE @ + 1,
                        !.task[t].finalised = @ + 1,
                        !.runningTasks = @ \ {t}]
    IN queueMicrotask(emit(continuation(s1, t), IF ok THEN "completed" ELSE "error", t),
                      "next", t)

timeoutDeadline_atOnce(s, t) == IF s.task[t].timeout > 0 THEN now ELSE 0

\* pTimeout(operation, {milliseconds: options.timeout}) arms its timer when the
\* job runs.
timeoutDeadline(s, t) == IF s.task[t].timeout > 0 THEN now + s.task[t].timeout ELSE 0

\* The synchronous part of the closure that add() enqueues: up to the first await.
job(s, t) ==
    LET s1 == [s EXCEPT !.pending = @ + 1,
                        !.runningTasks = @ \cup {t},
                        !.task[t].startTime = now]
    IN IF s1.task[t].signal = "aborted"
       THEN settle(rollbackIntervalConsumption(s1), t, "abort")
       ELSE LET s2 == emit([s1 EXCEPT !.lastExecutionTime = now,
                                      !.task[t].invoked = @ + 1,
                                      !.starts = Append(@, now)],
                           "invoke", t)
            IN IF s2.task[t].throws
               THEN settle(s2, t, "throw")
               ELSE [s2 EXCEPT !.task[t].st = "running",
                               !.task[t].fnLive = TRUE,
                               !.task[t].timeoutAt = timeoutDeadline(s2, t)]

\* ------------------------------------------------------------------ scheduler
accounting(s) == <<s.intervalCount, s.strictTicks, s.strictTicksStartIndex>>

canStart_intervalOnly(s) == doesIntervalAllowAnother(s)

canStart(s) == doesIntervalAllowAnother(s) /\ doesConcurrentAllowAnother(s)

\* The queue is empty: the interval timer is cleared and, when nothing runs,
\* the resume timer too, and the expired ticks are dropped.
onIdleQueue_whileRunning(s) == emit(clearTimeoutTimer(s), "idle", 0)

onIdleQueue(s) ==
    IF s.pending = 0
    THEN emit(IF strict /\ s.strictTicksStartIndex > 0
              THEN cleanupStrictTicks(clearTimeoutTimer(s), now)
              ELSE clearTimeoutTimer(s),
              "idle", 0)
    ELSE s

\* An empty queue that keeps its window timer.
onEmptyQueue_keepsTimer(s) == onIdleQueue(emit(s, "empty", 0))

onEmptyQueue(s) == onIdleQueue(emit(clearIntervalTimer(s), "empty", 0))

consumeForJob(s) ==
    IF ~isIntervalIgnored
    THEN scheduleRateLimitUpdate(consumeIntervalSlot(s, now))
    ELSE s

\* After job(): `before` is the accounting at the dequeue, kept to record
\* whether a task aborted before its start left it as it was.
afterJob(s, t, before, canInitializeInterval) ==
    initializeIntervalIfNeeded_when(
        canInitializeInterval,
        [s EXCEPT !.task[t].restored = s.task[t].invoked > 0 \/ accounting(s) = before])

\* The branch of #tryToStartAnother that dequeues: s is the queue after
\* #isIntervalPausedAt, t the task at the head.
startHead(s, t, canInitializeInterval) ==
    afterJob(job(emit(consumeForJob([s EXCEPT !.queue = dequeue(@),
                                              !.arrival = without(@, {t})]),
                      "active", t), t),
             t, accounting(s), canInitializeInterval)

tryToStartWhen(p) ==
    IF canStart(p.s)
    THEN [s |-> startHead(p.s, Head(p.s.queue).run, ~p.r), r |-> TRUE]
    ELSE [s |-> p.s, r |-> FALSE]

tryToStartAnother_ignoresPause(s) ==
    IF size(s) = 0
    THEN [s |-> onEmptyQueue(s), r |-> FALSE]
    ELSE tryToStartWhen(isIntervalPausedAt(s, now))

\* Returns the queue after the call and the call's result.
tryToStartAnother(s) ==
    IF size(s) = 0
    THEN [s |-> onEmptyQueue(s), r |-> FALSE]
    ELSE IF ~s.isPaused
         THEN the({tryToStartWhen(p) : p \in {isIntervalPausedAt(s, now)}})
         ELSE [s |-> s, r |-> FALSE]

RECURSIVE processQueue(_)
processQueueWhile(x) == IF x.r THEN processQueue(x.s) ELSE x.s

processQueue(s) == the({processQueueWhile(x) : x \in {tryToStartAnother(s)}})

\* The task's history is folded into `sound` once its next step has run.
finished(s, t) ==
    [s EXCEPT !.task[t] = [NewTask EXCEPT !.st = "done",
                                          !.sound = exactlyOnce(s.task[t]),
                                          !.fnLive = s.task[t].fnLive]]

\* #next of task t, with the 'next' listener of #setupRateLimitTracking.
pendingZero(s) == IF s.pending = 0 THEN emit(s, "pendingZero", 0) ELSE s

\* A next step that emits `next` before `pendingZero` and before it calls the
\* scheduler.
next_emitsFirst(s, t) ==
    finished(scheduleRateLimitUpdate(
                 tryToStartAnother(pendingZero(emit([s EXCEPT !.pending = @ - 1],
                                                    "next", t))).s), t)

next(s, t) ==
    finished(scheduleRateLimitUpdate(
                 emit(tryToStartAnother(pendingZero([s EXCEPT !.pending = @ - 1])).s,
                      "next", t)), t)

onInterval(s) ==
    LET s1 == IF ~strict
              THEN LET c == IF s.intervalCount = 0 /\ s.pending = 0 /\ s.intervalId # 0
                            THEN clearIntervalTimer(s)
                            ELSE s
                   IN [c EXCEPT !.intervalCount = windowReset(c)]
              ELSE s
    IN scheduleRateLimitUpdate(processQueue(s1))

onResumeInterval(s) ==
    initializeIntervalIfNeeded(onInterval([s EXCEPT !.timeoutId = 0]))

\* The 'add' listener of #setupRateLimitTracking.
onAdd(s) == IF ~isIntervalIgnored /\ size(s) > 0 THEN scheduleRateLimitUpdate(s) ELSE s

Digits == <<"0", "1", "2", "3", "4", "5", "6", "7", "8", "9">>

\* BigInt.prototype.toString: the decimal numeral of n.
RECURSIVE toString(_)
toString(n) ==
    IF n < 10 THEN Digits[n + 1] ELSE toString(n \div 10) \o Digits[(n % 10) + 1]

\* options.id ?? (this.#idAssigner++).toString()
add(s, t, opts) ==
    LET auto == opts.id = NoId
        id == IF auto THEN toString(s.idAssigner) ELSE opts.id
        s1 == [s EXCEPT !.idAssigner = IF auto THEN @ + 1 ELSE @,
                        !.task[t] = [NewTask EXCEPT !.st = "waiting",
                                                     !.id = id,
                                                     !.given = opts.id,
                                                     !.priority = opts.priority,
                                                     !.signal = opts.signal,
                                                     !.timeout = opts.timeout,
                                                     !.throws = opts.throws],
                        !.queue = enqueue(@, [priority |-> opts.priority, id |-> id, run |-> t]),
                        !.arrival = Append(@, t)]
    IN tryToStartAnother(onAdd(emit(s1, "add", t))).s

setConcurrency(s, newConcurrency) ==
    processQueue([s EXCEPT !.concurrency = newConcurrency])

start_onlyClearsFlag(s) == [s EXCEPT !.isPaused = FALSE]

start(s) == IF ~s.isPaused THEN s ELSE processQueue([s EXCEPT !.isPaused = FALSE])

pause(s) == [s EXCEPT !.isPaused = TRUE]


clearWhenIdle(s) == IF s.pending = 0 THEN emit(clearTimeoutTimer(s), "idle", 0) ELSE s

\* A clear() that also forgets the running tasks.
clear_forgetsRunning(s) ==
    scheduleRateLimitUpdate(emit(clearWhenIdle(emit(updateRateLimitState(clearIntervalTimer(
        [s EXCEPT !.queue = <<>>,
                  !.arrival = <<>>,
                  !.runningTasks = {},
                  !.task = [t \in TaskIds |->
                               IF \E i \in 1..Len(s.queue) : s.queue[i].run = t
                               THEN [NewTask EXCEPT !.st = "cleared"]
                               ELSE s.task[t]]])), "empty", 0)), "next", 0))

clear(s) ==
    scheduleRateLimitUpdate(emit(clearWhenIdle(emit(updateRateLimitState(clearIntervalTimer(
        [s EXCEPT !.queue = <<>>,
                  !.arrival = <<>>,
                  !.task = [t \in TaskIds |->
                               IF \E i \in 1..Len(s.queue) : s.queue[i].run = t
                               THEN [NewTask EXCEPT !.st = "cleared"]
                               ELSE s.task[t]]])), "empty", 0)), "next", 0))

\* onEmpty() / onIdle(): the returned future is settled at once or waits for
\* the next `empty` / `idle` event.
\* The `return` of onEmpty() / onIdle() / onPendingZero() before any listener
\* is attached: the future of the call for event e is resolved by the call
\* itself, which its owner observes.
resolveAtOnce(s, e) ==
    [s EXCEPT !.emitted = IF "resolved" \in listeners
                          THEN Append(@, [e |-> "resolved", of |-> 0, for |-> e,
                                          size |-> size(s), pending |-> s.pending])
                          ELSE @]

onEmpty(s) ==
    IF size(s) = 0 THEN resolveAtOnce(s, "empty") ELSE [s EXCEPT !.waiters["empty"] = TRUE]

onIdle(s) ==
    IF s.pending = 0 /\ size(s) = 0
    THEN resolveAtOnce(s, "idle")
    ELSE [s EXCEPT !.waiters["idle"] = TRUE]

\* onError(): a future with a listener for `error`.
onError(s) == [s EXCEPT !.waiters["error"] = TRUE]

\* An onPendingZero that returns at once only when nothing waits either.
onPendingZero_whenIdle(s) ==
    IF s.pending = 0 /\ size(s) = 0
    THEN resolveAtOnce(s, "pendingZero")
    ELSE [s EXCEPT !.waiters["pendingZero"] = TRUE]

onPendingZero(s) ==
    IF s.pending = 0
    THEN resolveAtOnce(s, "pendingZero")
    ELSE [s EXCEPT !.waiters["pendingZero"] = TRUE]

isRateLimited(s) == s.rateLimitedInInterval

isSaturated(s) ==
    \/ s.pending = s.concurrency /\ size(s) > 0
    \/ isRateLimited(s) /\ size(s) > 0

\* setPriority(id, priority) with a finite priority and an id that is waiting.
setPriority(s, id, priority) ==
    LET t == s.queue[findIndex(s.queue, id)].run
    IN [s EXCEPT !.queue = queueSetPriority(@, id, priority),
                 !.arrival = Append(without(@, {t}), t),
                 !.task[t].priority = priority,
                 !.task[t].reprio = TRUE]

\* JavaScript values a caller may pass where a number is expected: a finite
\* number, NaN, +Infinity, a numeric string.
Num(n) == [type |-> "number", num |-> n, finite |-> TRUE, nan |-> FALSE]

JsNaN == [type |-> "number", num |-> 0, finite |-> FALSE, nan |-> TRUE]

JsInfinity == [type |-> "number", num |-> Infinity, finite |-> FALSE, nan |-> FALSE]

Str(n) == [type |-> "string", num |-> n, finite |-> FALSE, nan |-> FALSE]

\* typeof v === 'number' && v >= 1
isNumberFromOne(v) == v.type = "number" /\ ~v.nan /\ v.num >= 1

\* typeof v === 'number' && Number.isFinite(v)
isFiniteNumber(v) == v.type = "number" /\ v.finite

\* throw: the call ends with the fields as they are at this point.
throw(s, error) == [s EXCEPT !.thrown = error]

\* The setter of `concurrency` with any value.
concurrencySetter(s, newConcurrency) ==
    IF ~isNumberFromOne(newConcurrency)
    THEN throw(s, "TypeError")
    ELSE setConcurrency(s, newConcurrency.num)

\* A setPriority that takes the element out before it looks at the index:
\* splice(-1, 1) removes the last element.
setPriorityCall_spliceFirst(s, id, priority) ==
    IF ~isFiniteNumber(priority)
    THEN throw(s, "TypeError")
    ELSE IF findIndex(s.queue, id) = 0
         THEN throw([s EXCEPT !.queue = removeAt(@, Len(@))], "ReferenceError")
         ELSE setPriority(s, id, priority.num)

\* setPriority(id, priority) with any priority and any id: the priority is
\* validated, then PriorityQueue.setPriority looks the id up and throws before
\* it splices.
setPriorityCall(s, id, priority) ==
    IF ~isFiniteNumber(priority)
    THEN throw(s, "TypeError")
    ELSE IF findIndex(s.queue, id) = 0
         THEN throw(s, "ReferenceError")
         ELSE setPriority(s, id, priority.num)

\* ------------------------------------------------------------------ initial states
ConcurrencyValues == {1, 2, Infinity}
IntervalCapValues == {1, 2, Infinity}
IntervalValues == {0, 2}
Priorities == {0, 1}
Signals == {"none", "live", "aborted"}
Timeouts == {0, 1}

\* The carry-over options of the constructor argument: each key is not given
\* ("absent"), given as undefined, or given as a boolean.
OptionValues == {"absent", "undefined", "true", "false"}

\* {carryoverIntervalCount: false, ...defaults, ...options}: a key of `options`
\* replaces the default whenever it is present, whatever its value.
mergeOptions(o) ==
    [carryoverIntervalCount |-> IF o.carryoverIntervalCount = "absent"
                                THEN "false"
                                ELSE o.carryoverIntervalCount,
     carryoverConcurrencyCount |-> o.carryoverConcurrencyCount]

\* a ?? b
nullish(a, b) == IF a \in {"absent", "undefined"} THEN b ELSE a

\* options.carryoverIntervalCount ?? options.carryoverConcurrencyCount ?? false
\* on the merged options.
constructorCarryover(o) ==
    LET merged == mergeOptions(o)
    IN nullish(merged.carryoverIntervalCount,
               nullish(merged.carryoverConcurrencyCount, "false")) = "true"

\* The options of a caller who gives carryoverIntervalCount only.
carryoverOption(c) ==
    [carryoverIntervalCount |-> IF c THEN "true" ELSE "false",
     carryoverConcurrencyCount |-> "absent"]

\* The state after construction from one of `given` carry-over options, with
\* `observed` the sets of events that may have a recording listener.
InitConstructed(observed, stricts, caps, intervals, given, concurrencies, autoStarts) ==
    /\ listeners \in observed
    /\ options \in given
    /\ carryoverIntervalCount = constructorCarryover(options)
    /\ emitted = <<>>
    /\ thrown = "none"
    /\ waiters = NoWaiters
    /\ strict \in stricts
    /\ intervalCap \in caps
    /\ interval \in intervals
    \* the constructor rejects strict with interval 0 or an infinite intervalCap
    /\ strict => (interval # 0 /\ intervalCap # Infinity)
    /\ concurrency \in concurrencies
    /\ isPaused \in {~a : a \in autoStarts}
    /\ pending = 0
    /\ queue = <<>>
    /\ intervalCount = 0
    /\ intervalEnd = 0
    /\ lastExecutionTime = 0
    /\ intervalId = 0
    /\ timeoutId = 0
    /\ strictTicks = <<>>
    /\ strictTicksStartIndex = 0
    /\ rateLimitedInInterval = FALSE
    /\ rateLimitFlushScheduled = FALSE
    /\ runningTasks = {}
    /\ idAssigner = 1
    /\ now = 1
    /\ microtasks = <<>>
    /\ task = [t \in TaskIds |-> NewTask]
    /\ starts = <<>>
    /\ arrival = <<>>

\* The state after construction with carryoverIntervalCount given explicitly.
InitObserved(observed, stricts, caps, intervals, carryovers, concurrencies, autoStarts) ==
    InitConstructed(observed, stricts, caps, intervals,
                    {carryoverOption(c) : c \in carryovers}, concurrencies, autoStarts)

\* The state after construction when nothing listens.
InitWith(stricts, caps, intervals, carryovers, concurrencies, autoStarts) ==
    InitObserved({{}}, stricts, caps, intervals, carryovers, concurrencies, autoStarts)

Init == InitWith(BOOLEAN, IntervalCapValues, IntervalValues, BOOLEAN, ConcurrencyValues, BOOLEAN)

\* ------------------------------------------------------------------ actions
added == {t \in TaskIds : task[t].st # "new"}

\* queue.add(fn, {priority, signal, timeout}): the next task of the run.
Add(priority, signal, timeout, throws) ==
    /\ Cardinality(added) < MaxTasks
    /\ Commit(add(St, Cardinality(added) + 1,
                  [id |-> NoId, priority |-> priority, signal |-> signal,
                   timeout |-> timeout, throws |-> throws]))
    /\ UNCHANGED now

\* add(fn, {id}) with an id of the caller's choice.
AddWithId(id) ==
    /\ Cardinality(added) < MaxTasks
    /\ Commit(add(St, Cardinality(added) + 1,
                  [id |-> id, priority |-> 0, signal |-> "none",
                   timeout |-> 0, throws |-> FALSE]))
    /\ UNCHANGED now

FnSettle_again(t, ok) ==
    /\ task[t].fnLive
    /\ Commit(settle([St EXCEPT !.task[t].fnLive = FALSE], t, IF ok THEN "ok" ELSE "fail"))
    /\ UNCHANGED now

\* The promise returned by the task function settles.
FnSettle(t, ok) ==
    /\ task[t].fnLive
    /\ LET s1 == [St EXCEPT !.task[t].fnLive = FALSE]
       IN IF task[t].st = "running"
          THEN Commit(settle(s1, t, IF ok THEN "ok" ELSE "fail"))
          ELSE Commit(s1)
    /\ UNCHANGED now

\* The timer of pTimeout fires before the operation has settled.
TimeoutFire(t) ==
    /\ microtasks = <<>>
    /\ task[t].st = "running"
    /\ task[t].timeoutAt # 0
    /\ now >= task[t].timeoutAt
    /\ Commit(settle(St, t, "timeout"))
    /\ UNCHANGED now

\* controller.abort() on the signal of a task that is waiting or running; the
\* abort listener exists only while the task runs.
Abort(t) ==
    /\ task[t].signal = "live"
    /\ task[t].st \in {"waiting", "running"}
    /\ LET s1 == [St EXCEPT !.task[t].signal = "aborted"]
       IN IF task[t].st = "running"
          THEN Commit(settle(s1, t, "abort"))
          ELSE Commit(s1)
    /\ UNCHANGED now

RunMicrotask ==
    /\ microtasks # <<>>
    /\ LET m == Head(microtasks)
           s1 == [St EXCEPT !.microtasks = Tail(@)]
       IN IF m.kind = "next"
          THEN Commit(next(s1, m.of))
          ELSE IF m.kind = "then"
          THEN Commit(emit(s1, "then", m.of))
          ELSE Commit(updateRateLimitState([s1 EXCEPT !.rateLimitFlushScheduled = FALSE]))
    /\ UNCHANGED now

\* Timers and the clock run between macrotasks: the microtask queue is empty.
Tick ==
    /\ microtasks = <<>>
    /\ now < MaxTime
    /\ now' = now + 1
    /\ emitted' = <<>>
    /\ thrown' = "none"
    /\ UNCHANGED <<cfgVars, pending, concurrency, isPaused, queue, intervalCount,
                   intervalEnd, lastExecutionTime, intervalId, timeoutId, strictTicks,
                   strictTicksStartIndex, rateLimitedInInterval, rateLimitFlushScheduled,
                   runningTasks, idAssigner, microtasks, task, starts, arrival, waiters>>

\* The clock as far as a queue without rate limit can tell: it advances while
\* the timer of some running task's timeout is armed.
TickWhileTimeoutArmed ==
    /\ \E t \in TaskIds : task[t].st = "running" /\ task[t].timeoutAt # 0
    /\ Tick

\* The setInterval timer: it is re-armed from the time of this run unless the
\* callback cleared it.
IntervalFire ==
    /\ microtasks = <<>>
    /\ intervalId # 0
    /\ now >= intervalId
    /\ LET s1 == onInterval(St)
       IN Commit([s1 EXCEPT !.intervalId = IF @ # 0 THEN now + interval ELSE 0])
    /\ UNCHANGED now

ResumeFire ==
    /\ microtasks = <<>>
    /\ timeoutId # 0
    /\ now >= timeoutId
    /\ Commit(onResumeInterval(St))
    /\ UNCHANGED now

Pause ==
    /\ ~isPaused
    /\ Commit(pause(St))
    /\ UNCHANGED now

Start ==
    /\ isPaused
    /\ Commit(start(St))
    /\ UNCHANGED now

Clear ==
    /\ Commit(clear(St))
    /\ UNCHANGED now

SetConcurrency(c) ==
    /\ Commit(setConcurrency(St, c))
    /\ UNCHANGED now

SetPriority(t, p) ==
    /\ task[t].st = "waiting"
    /\ Commit(setPriority(St, task[t].id, p))
    /\ UNCHANGED now

\* queue.concurrency = v and queue.setPriority(id, v) with any value v.
ConcurrencySetter(v) ==
    /\ Commit(concurrencySetter(St, v))
    /\ UNCHANGED now

SetPriorityCall(id, v) ==
    /\ Commit(setPriorityCall(St, id, v))
    /\ UNCHANGED now

\* queue.onEmpty() / queue.onIdle() while no future of an earlier call is
\* outstanding.
OnEmpty ==
    /\ ~waiters["empty"]
    /\ Commit(onEmpty(St))
    /\ UNCHANGED now

OnIdle ==
    /\ ~waiters["idle"]
    /\ Commit(onIdle(St))
    /\ UNCHANGED now

\* queue.onError() while no future of an earlier call is outstanding.
OnError ==
    /\ ~waiters["error"]
    /\ Commit(onError(St))
    /\ UNCHANGED now

OnPendingZero ==
    /\ ~waiters["pendingZero"]
    /\ Commit(onPendingZero(St))
    /\ UNCHANGED now

\* ------------------------------------------------------------------ specifications
\* Every option and every operation. Its state space is large; the claims are
\* checked under the specifications below, each of which fixes the options its
\* claims do not depend on.
Next ==
    \/ \E p \in Priorities, sg \in Signals, tm \in Timeouts, th \in BOOLEAN : Add(p, sg, tm, th)
    \/ \E t \in TaskIds, ok \in BOOLEAN : FnSettle(t, ok)
    \/ \E t \in TaskIds : TimeoutFire(t)
    \/ \E t \in TaskIds : Abort(t)
    \/ RunMicrotask
    \/ Tick
    \/ IntervalFire
    \/ ResumeFire
    \/ Pause
    \/ Start
    \/ Clear
    \/ \E c \in ConcurrencyValues : SetConcurrency(c)
    \/ \E t \in TaskIds, p \in Priorities : SetPriority(t, p)

Spec == Init /\ [][Next]_vars

\* No rate limit (the default interval 0): concurrency, pause, clear, signals,
\* failing tasks and assignments to `concurrency`.
InitConc == InitWith({FALSE}, {Infinity}, {0}, {FALSE}, {1, 2}, BOOLEAN)

NextConc ==
    \/ \E sg \in {"none", "live"}, th \in BOOLEAN : Add(0, sg, 0, th)
    \/ \E t \in TaskIds, ok \in BOOLEAN : FnSettle(t, ok)
    \/ \E t \in TaskIds : Abort(t)
    \/ RunMicrotask
    \/ Pause
    \/ Start
    \/ Clear
    \/ \E c \in {1, 2} : SetConcurrency(c)

SpecConc == InitConc /\ [][NextConc]_vars

\* Both rate-limit modes with their timers; `concurrency` is not assigned after
\* construction and no signal is used.
InitRate == InitWith(BOOLEAN, {2}, {2}, {FALSE}, {1, 2}, {TRUE})

NextTimers ==
    \/ Add(0, "none", 0, FALSE)
    \/ \E t \in TaskIds : FnSettle(t, TRUE)
    \/ RunMicrotask
    \/ Tick
    \/ IntervalFire
    \/ ResumeFire
    \/ Pause
    \/ Start
    \/ Clear

SpecRate == InitRate /\ [][NextTimers]_vars

\* The rate limiter with tasks whose signal is aborted before they are added.
NextRate ==
    \/ \E sg \in {"none", "aborted"} : Add(0, sg, 0, FALSE)
    \/ \E t \in TaskIds : FnSettle(t, TRUE)
    \/ RunMicrotask
    \/ Tick
    \/ IntervalFire
    \/ ResumeFire
    \/ Pause
    \/ Start
    \/ Clear

\* Both rate-limit modes with one concurrency slot.
InitAbort == InitWith(BOOLEAN, {2}, {2}, {FALSE}, {1}, {TRUE})

SpecAbort == InitAbort /\ [][NextRate]_vars

\* Strict (sliding-window) mode.
InitStrict == InitWith({TRUE}, {1, 2}, {2}, {FALSE}, {1, 2}, {TRUE})

\* Strict mode never arms the setInterval timer.
NextStrict ==
    \/ \E sg \in {"none", "aborted"} : Add(0, sg, 0, FALSE)
    \/ \E t \in TaskIds : FnSettle(t, TRUE)
    \/ RunMicrotask
    \/ Tick
    \/ ResumeFire
    \/ Pause
    \/ Start
    \/ Clear

SpecStrict == InitStrict /\ [][NextStrict]_vars

\* Fixed-window mode with intervalCap = 1.
InitFixed == InitWith({FALSE}, {1}, {2}, BOOLEAN, {1, 2}, {TRUE})

SpecFixed == InitFixed /\ [][NextRate]_vars

\* Priorities and setPriority with one concurrency slot and no rate limit.
InitPrio == InitWith({FALSE}, {Infinity}, {0}, {FALSE}, {1}, BOOLEAN)

NextPrio ==
    \/ \E p \in {0, 1, 2} : Add(p, "none", 0, FALSE)
    \/ \E t \in TaskIds : FnSettle(t, TRUE)
    \/ RunMicrotask
    \/ Pause
    \/ Start
    \/ Clear
    \/ \E t \in TaskIds, p \in {0, 1, 2} : SetPriority(t, p)

SpecPrio == InitPrio /\ [][NextPrio]_vars

\* The life of a task with one concurrency slot and no rate limit: failing
\* functions, per-task timeouts, signals, clear and setPriority.
InitLife == InitWith({FALSE}, {Infinity}, {0}, {FALSE}, {1}, {TRUE})

NextLife ==
    \/ \E th \in BOOLEAN : Add(0, "none", 0, th)
    \/ Add(0, "live", 1, FALSE)
    \/ \E t \in TaskIds, ok \in BOOLEAN : FnSettle(t, ok)
    \/ \E t \in TaskIds : TimeoutFire(t)
    \/ \E t \in TaskIds : Abort(t)
    \/ RunMicrotask
    \/ TickWhileTimeoutArmed
    \/ Clear
    \/ \E t \in TaskIds : SetPriority(t, 1)

SpecLife == InitLife /\ [][NextLife]_vars

\* Pause with every trigger of the scheduler: add, next steps, both timers,
\* assignments to `concurrency`, clear. The queue is constructed paused.
InitPause == InitWith(BOOLEAN, {1}, {2}, {FALSE}, {1}, {FALSE})

NextPause ==
    \/ Add(0, "none", 0, FALSE)
    \/ \E t \in TaskIds : FnSettle(t, TRUE)
    \/ RunMicrotask
    \/ Tick
    \/ IntervalFire
    \/ ResumeFire
    \/ Pause
    \/ Start
    \/ Clear
    \/ \E c \in {1, 2} : SetConcurrency(c)

SpecPause == InitPause /\ [][NextPause]_vars

\* A rate-limited queue whose `rateLimit` and `rateLimitCleared` events are
\* recorded, with clear().
InitRateEvents ==
    InitObserved({{"rateLimit", "rateLimitCleared"}}, BOOLEAN, {1}, {2}, {FALSE}, {1, 2}, {TRUE})

NextRateEvents ==
    \/ Add(0, "none", 0, FALSE)
    \/ \E t \in TaskIds : FnSettle(t, TRUE)
    \/ RunMicrotask
    \/ Tick
    \/ IntervalFire
    \/ ResumeFire
    \/ Clear

SpecRateEvents == InitRateEvents /\ [][NextRateEvents]_vars

\* The same queue with tasks whose signal is aborted before they are added:
\* consumed slots are rolled back.
NextRateRollback ==
    \/ \E sg \in {"none", "aborted"} : Add(0, sg, 0, FALSE)
    \/ \E t \in TaskIds : FnSettle(t, TRUE)
    \/ RunMicrotask
    \/ Tick
    \/ IntervalFire
    \/ ResumeFire
    \/ Clear

SpecRateRollback == InitRateEvents /\ [][NextRateRollback]_vars

\* The life of a task on a queue that is also paused and started: per-task
\* timeouts, signals, clear and setPriority, one concurrency slot, no rate
\* limit.
NextOnce ==
    \/ Add(0, "live", 1, FALSE)
    \/ \E t \in TaskIds : FnSettle(t, TRUE)
    \/ \E t \in TaskIds : TimeoutFire(t)
    \/ \E t \in TaskIds : Abort(t)
    \/ RunMicrotask
    \/ TickWhileTimeoutArmed
    \/ Clear
    \/ \E t \in TaskIds : SetPriority(t, 1)
    \/ Pause
    \/ Start

SpecOnce == InitLife /\ [][NextOnce]_vars

\* A queue without rate limit whose `empty` and `idle` events are recorded,
\* with onEmpty() and onIdle() futures.
InitEvents ==
    InitObserved({{"empty", "idle"}}, {FALSE}, {Infinity}, {0}, {FALSE}, {1, 2}, {TRUE})

NextEvents ==
    \/ Add(0, "none", 0, FALSE)
    \/ \E t \in TaskIds : FnSettle(t, TRUE)
    \/ RunMicrotask
    \/ Pause
    \/ Start
    \/ Clear
    \/ \E c \in {1, 2} : SetConcurrency(c)
    \/ OnEmpty
    \/ OnIdle

SpecEvents == InitEvents /\ [][NextEvents]_vars

\* A queue whose task events are recorded together with the call of each task
\* function and the run of a continuation attached to each add() future.
InitOrder ==
    InitObserved({{"active", "invoke", "completed", "error", "then", "next"}},
                 {FALSE}, {Infinity}, {0}, {FALSE}, {1}, {TRUE})

NextOrder ==
    \/ Add(0, "live", 1, FALSE)
    \/ \E t \in TaskIds, ok \in BOOLEAN : FnSettle(t, ok)
    \/ \E t \in TaskIds : TimeoutFire(t)
    \/ \E t \in TaskIds : Abort(t)
    \/ RunMicrotask
    \/ TickWhileTimeoutArmed
    \/ Clear

SpecOrder == InitOrder /\ [][NextOrder]_vars

\* Progress to idle. The clock of a run is finite, so the run leaves room for
\* the last window: up to lastCall the program's user, the task functions and
\* the timers interleave freely; from lastCall on no task is added, the queue is
\* not paused again, and the clock advances only when the queue is started, no
\* function is executing and no timer is due.
lastCall == MaxTime - 2

quiescent ==
    /\ ~isPaused
    /\ \A t \in TaskIds : ~task[t].fnLive
    /\ ~(intervalId # 0 /\ now >= intervalId)
    /\ ~(timeoutId # 0 /\ now >= timeoutId)

AddEarly == now <= lastCall /\ Add(0, "none", 0, FALSE)

PauseEarly == now <= lastCall /\ Pause

TickToIdle == (now >= lastCall => quiescent) /\ Tick

InitIdle == InitObserved({{"idle"}}, BOOLEAN, {2}, {2}, {FALSE}, {1}, {TRUE})

NextIdle ==
    \/ AddEarly
    \/ \E t \in TaskIds, ok \in BOOLEAN : FnSettle(t, ok)
    \/ RunMicrotask
    \/ TickToIdle
    \/ IntervalFire
    \/ ResumeFire
    \/ PauseEarly
    \/ Start
    \/ OnIdle

\* Every started function settles, microtasks run, timers fire, time passes,
\* a paused queue is started again.
FairIdle ==
    /\ \A t \in TaskIds : WF_vars(\E ok \in BOOLEAN : FnSettle(t, ok))
    /\ WF_vars(RunMicrotask)
    /\ SF_vars(TickToIdle)
    /\ WF_vars(IntervalFire)
    /\ WF_vars(ResumeFire)
    /\ WF_vars(Start)

SpecIdle == InitIdle /\ [][NextIdle]_vars

SpecIdleFair == SpecIdle /\ FairIdle

\* Queues whose rate limit is ignored (intervalCap infinite or interval 0),
\* next to one whose rate limit is in force.
InitIgnored ==
    InitObserved({{"rateLimit", "rateLimitCleared"}},
                 {FALSE}, {1, Infinity}, {0, 2}, {FALSE}, {1}, {TRUE})

NextIgnored ==
    \/ Add(0, "none", 0, FALSE)
    \/ \E t \in TaskIds : FnSettle(t, TRUE)
    \/ RunMicrotask
    \/ Tick
    \/ IntervalFire
    \/ ResumeFire
    \/ Pause
    \/ Start
    \/ Clear
    \/ \E c \in {1, 2} : SetConcurrency(c)

SpecIgnored == InitIgnored /\ [][NextIgnored]_vars

\* A rate-limited queue that is paused and may stay paused: microtasks run,
\* due timers fire and time passes, but nobody has to call start(). The queue
\* is paused no later than lastCall, so that a whole interval can elapse.
InitPausedWindow ==
    InitObserved({{"rateLimitCleared"}}, BOOLEAN, {1}, {2}, {FALSE}, {1}, {TRUE})

NextPausedWindow ==
    \/ Add(0, "none", 0, FALSE)
    \/ \E t \in TaskIds : FnSettle(t, TRUE)
    \/ RunMicrotask
    \/ Tick
    \/ IntervalFire
    \/ ResumeFire
    \/ PauseEarly
    \/ Start

FairPausedWindow ==
    /\ WF_vars(RunMicrotask)
    /\ SF_vars(Tick)
    /\ WF_vars(IntervalFire)
    /\ WF_vars(ResumeFire)

SpecPausedWindow == InitPausedWindow /\ [][NextPausedWindow]_vars

SpecPausedWindowFair == SpecPausedWindow /\ FairPausedWindow

\* Fixed windows with and without carry-over, two concurrency slots and
\* intervalCap 1 or 2.
InitCarryover == InitWith({FALSE}, {1, 2}, {2}, BOOLEAN, {2}, {TRUE})

NextCarryover ==
    \/ Add(0, "none", 0, FALSE)
    \/ \E t \in TaskIds : FnSettle(t, TRUE)
    \/ RunMicrotask
    \/ Tick
    \/ IntervalFire
    \/ ResumeFire
    \/ Clear

SpecCarryover == InitCarryover /\ [][NextCarryover]_vars

\* Fixed windows of a queue constructed with the deprecated option
\* carryoverConcurrencyCount, with carryoverIntervalCount, or with neither.
InitDeprecated ==
    InitConstructed({{}}, {FALSE}, {1}, {2},
                    [carryoverIntervalCount : {"absent", "undefined", "true"},
                     carryoverConcurrencyCount : {"absent", "true"}],
                    {2}, {TRUE})

SpecDeprecated == InitDeprecated /\ [][NextCarryover]_vars

\* Calls with valid and invalid arguments on a queue with one or two slots
\* and no rate limit.
JsValues == {Num(0), Num(2), JsNaN, JsInfinity, Str(2)}

\* The ids that add() assigns to the tasks of a run.
AutoIds == {toString(n) : n \in TaskIds}

InitThrow == InitWith({FALSE}, {Infinity}, {0}, {FALSE}, {1}, BOOLEAN)

NextThrow ==
    \/ Add(1, "none", 0, FALSE)
    \/ \E t \in TaskIds : FnSettle(t, TRUE)
    \/ RunMicrotask
    \/ Start
    \/ \E v \in JsValues : ConcurrencySetter(v)
    \/ \E id \in AutoIds, v \in JsValues : SetPriorityCall(id, v)

SpecThrow == InitThrow /\ [][NextThrow]_vars

\* A queue without rate limit whose owner calls onEmpty(), onIdle() and
\* onPendingZero() and observes the futures that resolve at the call.
InitSettled == InitObserved({{"resolved"}}, {FALSE}, {Infinity}, {0}, {FALSE}, {1}, BOOLEAN)

NextSettled ==
    \/ Add(0, "none", 0, FALSE)
    \/ \E t \in TaskIds : FnSettle(t, TRUE)
    \/ RunMicrotask
    \/ Pause
    \/ Start
    \/ OnEmpty
    \/ OnIdle
    \/ OnPendingZero

SpecSettled == InitSettled /\ [][NextSettled]_vars

\* Failing tasks in a queue whose owner calls onError(), listens for `error`
\* and observes the rejection of the future of onError().
InitOnError ==
    InitObserved({{"error", "rejected"}}, {FALSE}, {Infinity}, {0}, {FALSE}, {1, 2}, {TRUE})

NextOnError ==
    \/ Add(0, "none", 0, FALSE)
    \/ \E t \in TaskIds, ok \in BOOLEAN : FnSettle(t, ok)
    \/ RunMicrotask
    \/ OnError

SpecOnError == InitOnError /\ [][NextOnError]_vars

\* Both rate-limit modes with every operation that arms or releases a timer:
\* adds (also of tasks aborted before their start), pause, start, clear, a
\* raised concurrency and both timers.
InitReleased == InitWith(BOOLEAN, {1}, {2}, {FALSE}, {1}, {TRUE})

NextReleased ==
    \/ \E sg \in {"none", "aborted"} : Add(0, sg, 0, FALSE)
    \/ \E t \in TaskIds : FnSettle(t, TRUE)
    \/ RunMicrotask
    \/ Tick
    \/ IntervalFire
    \/ ResumeFire
    \/ Pause
    \/ Start
    \/ Clear
    \/ SetConcurrency(2)

SpecReleased == InitReleased /\ [][NextReleased]_vars

\* Tasks with a live signal in a queue that starts paused; the signals are
\* aborted while the tasks wait or run.
InitAbortAll == InitWith({FALSE}, {Infinity}, {0}, {FALSE}, {1, 2}, {FALSE})

NextAbortAll ==
    \/ Add(0, "live", 0, FALSE)
    \/ \E t \in TaskIds : Abort(t)
    \/ \E t \in TaskIds : FnSettle(t, TRUE)
    \/ RunMicrotask
    \/ Start

SpecAbortAll == InitAbortAll /\ [][NextAbortAll]_vars

\* Microtasks run whenever one is queued.
SpecAbortAllFair == SpecAbortAll /\ WF_vars(RunMicrotask)

\* Tasks added with and without an id of the caller's choice, and setPriority
\* by such an id.
CallerIds == {"1", "2", "a"}

NextIds ==
    \/ Add(0, "none", 0, FALSE)
    \/ \E id \in CallerIds : AddWithId(id)
    \/ \E t \in TaskIds : FnSettle(t, TRUE)
    \/ RunMicrotask
    \/ Start
    \/ \E id \in CallerIds : SetPriorityCall(id, Num(2))

SpecIds == InitPrio /\ [][NextIds]_vars

\* ------------------------------------------------------------------ claims
tasksIn(states) == {t \in TaskIds : task[t].st \in states}

PendingWithinFixedConcurrency == pending <= concurrency

FullWhileTimersArmed ==
    /\ pending = concurrency
    /\ queue # <<>>
    /\ ~isPaused
    /\ \E i \in 1..Len(microtasks) : microtasks[i].kind = "next"
    /\ intervalId # 0 \/ timeoutId # 0
    /\ now > 1

\* C3: in strict mode the k-th and the (k + intervalCap)-th task that actually
\* start are at least `interval` ms apart, so no window of length `interval`
\* holds more than intervalCap starts (tasks aborted before they start are not
\* counted).
StrictSlidingWindow ==
    strict => \A k \in 1..Len(starts) :
                 k + intervalCap <= Len(starts)
                    => starts[k + intervalCap] - starts[k] >= interval

MoreStartsThanCap ==
    /\ strict
    /\ Len(starts) > intervalCap
    /\ \E t \in TaskIds : task[t].st = "done" /\ task[t].sound /\ ~task[t].fnLive

\* C4: in fixed-window mode with intervalCap = 1 any two consecutive task
\* starts are at least `interval` ms apart.
ConsecutiveStartsSpaced ==
    (~strict /\ intervalCap = 1 /\ interval > 0)
        => \A k \in 1..(Len(starts) - 1) : starts[k + 1] - starts[k] >= interval

\* The place of a task among the waiting tasks by the time of its latest
\* enqueue (add or setPriority); a task enqueued by the step itself comes last.
arrivalPos(t) ==
    IF \E i \in 1..Len(arrival) : arrival[i] = t
    THEN CHOOSE i \in 1..Len(arrival) : arrival[i] = t
    ELSE Len(arrival) + 1

\* C5: a step that admits a task takes one of the greatest priority among the
\* waiting tasks and, among those, the one enqueued earliest; tasks of equal
\* priority that were not re-prioritised are admitted in submission order.
AdmissionByPriorityThenArrival ==
    [][\A t, u \in TaskIds :
          (/\ task[t].st \in {"new", "waiting"}
           /\ task'[t].st \in {"running", "settled"}
           /\ task'[u].st = "waiting")
          => /\ task'[t].priority >= task'[u].priority
             /\ task'[t].priority = task'[u].priority
                  => /\ arrivalPos(t) < arrivalPos(u)
                     /\ (~task'[t].reprio /\ ~task'[u].reprio) => t < u]_vars

LaterTaskOvertook ==
    \E t, u \in TaskIds :
        /\ u < t
        /\ task[u].st = "waiting"
        /\ task[t].st = "running"
        /\ task[t].priority > task[u].priority
        /\ ~task[t].reprio
        /\ \E v \in TaskIds : task[v].st = "done"

events(r) == r.completed + r.errored

settlements(r) == r.resolved + r.rejected

noHistory(r) ==
    /\ events(r) = 0
    /\ settlements(r) = 0
    /\ r.finalised = 0

Quiescent ==
    /\ queue = <<>>
    /\ pending = 0
    /\ microtasks = <<>>

\* C6, as stated: every task passed to add gets exactly one `completed` or
\* `error` event and its future settles exactly once, whatever operations
\* follow; so once the queue has nothing waiting, running or deferred, every
\* task that was added has had its event and its settlement.
EveryAddedTaskSettlesOnce ==
    Quiescent => \A t \in TaskIds :
                    task[t].st # "new" => (task[t].st = "done" /\ task[t].sound)

\* C6, amended: every task that the scheduler dequeues gets exactly one event
\* and one settlement of its future, no task gets more than one, nothing
\* happens to a task after its next step, and a task that clear() discards
\* while it waits gets no event and its future never settles.
DequeuedTaskSettlesOnce ==
    /\ [](\A t \in TaskIds :
            /\ events(task[t]) <= 1
            /\ settlements(task[t]) <= 1
            /\ task[t].st = "settled" => exactlyOnce(task[t])
            /\ task[t].st = "done" => (task[t].sound /\ noHistory(task[t]))
            /\ task[t].st \in {"new", "waiting", "running", "cleared"} => noHistory(task[t]))
    /\ [](Quiescent => \A t \in TaskIds : task[t].st \in {"new", "done", "cleared"})
    /\ [][\A t \in TaskIds :
            /\ task[t].st = "cleared" => task'[t] = task[t]
            /\ task[t].st = "done" => task'[t] = [task[t] EXCEPT !.fnLive = task'[t].fnLive]
            /\ task[t].st = "settled" =>
                  \/ task'[t].st = "done"
                  \/ task'[t] = [task[t] EXCEPT !.fnLive = task'[t].fnLive]]_vars

SettledAfterTimeoutAndClear ==
    /\ Quiescent
    /\ \E t, u, v \in TaskIds :
          /\ task[t].st = "done" /\ task[t].fnLive
          /\ task[u].st = "cleared"
          /\ task[v].st = "done" /\ ~task[v].fnLive

\* C8, as documented: aborting the signal of a task that is still waiting
\* removes it from the queue (size decreases by one) and rejects its add()
\* promise, whatever the state of the queue.
AbortRemovesWaitingTask ==
    [][\A t \in TaskIds :
          (task[t].st = "waiting" /\ task[t].signal = "live" /\ task'[t].signal = "aborted")
          => /\ task'[t].st # "waiting"
             /\ Len(queue') = Len(queue) - 1
             /\ task'[t].rejected = 1]_vars

\* C7: a task whose signal is already aborted when the scheduler dequeues it
\* never has its function invoked, its future rejects with the abort reason,
\* one `error` event is emitted, and intervalCount (fixed window) or the tick
\* list (strict) is back at its value before the dequeue; a step that invokes
\* no function leaves the time of the last execution alone.
PreStartAbortRollsBack ==
    /\ [](\A t \in TaskIds :
            (task[t].st = "settled" /\ task[t].reason = "abort" /\ task[t].invoked = 0)
            => /\ task[t].rejected = 1 /\ task[t].errored = 1
               /\ task[t].resolved = 0 /\ task[t].completed = 0
               /\ ~task[t].fnLive
               /\ task[t].restored)
    /\ [][/\ \A t \in TaskIds :
               (/\ task[t].st \in {"new", "waiting"}
                /\ task'[t].signal = "aborted"
                /\ task'[t].st \notin {"new", "waiting", "cleared"})
               => /\ task'[t].st = "settled"
                  /\ task'[t].reason = "abort"
                  /\ task'[t].invoked = 0
          /\ starts' = starts => lastExecutionTime' = lastExecutionTime]_vars

AbortedAfterAnAdmission ==
    \E t \in TaskIds :
        /\ task[t].st = "settled" /\ task[t].reason = "abort" /\ task[t].invoked = 0
        /\ task[t].restored
        /\ IF strict THEN getActiveTicksCount(St) > 0 ELSE intervalCount > 0
        /\ Len(starts) > 0

\* C9: the timer of a task's timeout is armed at its admission, never while
\* it waits; a task that times out does so no earlier than `timeout` ms after
\* its admission, with its future rejected and exactly one `error` event; when
\* its function settles afterwards nothing else changes: no event, no
\* settlement, pending and the deferred next steps are as they were.
TimeoutAfterAdmission ==
    /\ [](\A t \in TaskIds :
            /\ task[t].st \in {"new", "waiting"} => task[t].timeoutAt = 0
            /\ (task[t].st = "running" /\ task[t].timeout > 0)
                  => task[t].timeoutAt = task[t].startTime + task[t].timeout
            /\ (task[t].st = "settled" /\ task[t].reason = "timeout")
                  => /\ task[t].timeout > 0
                     /\ now >= task[t].startTime + task[t].timeout
                     /\ task[t].rejected = 1 /\ task[t].errored = 1
                     /\ task[t].resolved = 0 /\ task[t].completed = 0
                     /\ task[t].finalised = 1)
    /\ [][\A t \in TaskIds :
            (task[t].st \in {"settled", "done"} /\ task[t].fnLive /\ ~task'[t].fnLive)
            => /\ task'[t] = [task[t] EXCEPT !.fnLive = FALSE]
               /\ pending' = pending
               /\ microtasks' = microtasks
               /\ queue' = queue]_vars

SettledLateAfterTimeout ==
    \E t \in TaskIds :
        /\ task[t].st = "settled" /\ task[t].reason = "timeout"
        /\ ~task[t].fnLive
        /\ task[t].startTime > 1
        /\ exactlyOnce(task[t])

nextSteps == {i \in 1..Len(microtasks) : microtasks[i].kind = "next"}

failed(r) == r.st = "settled" /\ r.reason \in {"fail", "throw"}

\* C10: a task whose function rejects or throws has its own future rejected
\* and one `error` event; its next step is deferred exactly once, so pending
\* counts the running tasks and the deferred next steps; that next step
\* decrements pending and admits the head of the waiting queue when the queue
\* is not paused and a slot is free; the failure changes neither the paused
\* flag, nor the waiting queue, nor any task that is running or finished.
FailureIsContained ==
    /\ [](/\ pending = Cardinality(tasksIn({"running"})) + Cardinality(nextSteps)
          /\ \A t \in TaskIds :
                /\ task[t].st = "settled"
                      <=> \E i \in nextSteps : microtasks[i].of = t
                /\ failed(task[t])
                      => /\ task[t].rejected = 1 /\ task[t].errored = 1
                         /\ task[t].resolved = 0 /\ task[t].completed = 0
                         /\ Cardinality({i \in nextSteps : microtasks[i].of = t}) = 1)
    /\ [][\A t \in TaskIds :
            /\ (task[t].st = "running" /\ failed(task'[t]))
                  => /\ isPaused' = isPaused
                     /\ queue' = queue
                     /\ pending' = pending
                     /\ \A u \in TaskIds \ {t} : task'[u] = task[u]
            /\ (task[t].st \in {"new", "waiting"} /\ failed(task'[t]))
                  => \A u \in TaskIds \ {t} :
                        task[u].st \in {"running", "done", "cleared"} => task'[u] = task[u]
            /\ (failed(task[t]) /\ task'[t].st = "done")
                  => /\ isPaused' = isPaused
                     /\ \A u \in TaskIds \ {t} :
                           task[u].st # "waiting" => task'[u] = task[u]
                     /\ IF ~isPaused /\ queue # <<>> /\ pending - 1 < concurrency
                        THEN /\ queue' = Tail(queue)
                             /\ task'[Head(queue).run].st \in {"running", "settled"}
                             /\ pending' = pending
                        ELSE /\ queue' = queue
                             /\ pending' = pending - 1]_vars

WaitingBehindFailedTask ==
    \E t \in TaskIds :
        /\ failed(task[t])
        /\ microtasks # <<>> /\ Head(microtasks) = [kind |-> "next", of |-> t]
        /\ queue # <<>>
        /\ ~isPaused
        /\ pending = concurrency
        /\ \E u \in TaskIds : task[u].st = "done" /\ task[u].sound

\* C11: a step that begins and ends paused (any handler but start()) admits
\* no task: no function is invoked, no task leaves the waiting queue except by
\* clear(), pending does not grow; a running task that leaves the running
\* state in such a step has settled, with one event and one settlement.
NoAdmissionWhilePaused ==
    [][(isPaused /\ isPaused')
         => /\ starts' = starts
            /\ pending' <= pending
            /\ \A t \in TaskIds :
                  /\ task[t].st \in {"new", "waiting"}
                        => task'[t].st \in {"new", "waiting", "cleared"}
                  /\ (task[t].st = "running" /\ task'[t].st # "running")
                        => (task'[t].st = "settled" /\ exactlyOnce(task'[t]))
                  /\ (task[t].st = "settled" /\ task'[t].st # "settled")
                        => (task'[t].st = "done" /\ task'[t].sound)]_vars

PausedWithRoomAndWork ==
    /\ isPaused
    /\ queue # <<>>
    /\ canStart(St)
    /\ now > 1
    /\ \E t \in TaskIds : task[t].st = "done"
    /\ \E t \in TaskIds : task[t].st = "waiting"

\* The queue with its waiting tasks taken away and nothing else changed.
withoutWaiting(s) == [s EXCEPT !.queue = <<>>, !.arrival = <<>>]

\* The timer callbacks that are due at this instant.
dueTimers(s) ==
    IF s.intervalId # 0 /\ now >= s.intervalId THEN onInterval(s)
    ELSE IF s.timeoutId # 0 /\ now >= s.timeoutId THEN onResumeInterval(s)
    ELSE s

\* Whether a task added to s at this instant is admitted at this instant.
admitsNew(s) ==
    LET t == Cardinality(added) + 1
    IN dueTimers(add(s, t, [id |-> NoId, priority |-> 0, signal |-> "none",
                            timeout |-> 0, throws |-> FALSE])).task[t].st # "waiting"

\* C12: clear() empties the waiting queue and leaves pending, the running
\* tasks, the paused flag, concurrency, intervalCount, the tick history and
\* the time of the last execution as they were, so that a task added right
\* after it is admitted at that instant only if the same queue, with nothing
\* waiting and no clear(), would have admitted it at that instant.
ClearKeepsAccounting ==
    [][Clear
         => /\ queue' = <<>>
            /\ pending' = pending
            /\ runningTasks' = runningTasks
            /\ isPaused' = isPaused
            /\ concurrency' = concurrency
            /\ intervalCount' = intervalCount
            /\ strictTicks' = strictTicks
            /\ strictTicksStartIndex' = strictTicksStartIndex
            /\ lastExecutionTime' = lastExecutionTime
            /\ \A t \in TaskIds : task[t].st # "waiting" => task'[t] = task[t]
            /\ Cardinality(added) < MaxTasks
                  => (admitsNew(clear(St)) => admitsNew(withoutWaiting(St)))]_vars

\* The number of events named e that the latest handler emitted.
emittedCount(log, e) == Cardinality({i \in 1..Len(log) : log[i].e = e})

\* C13: a clear() called while the queue is rate-limited returns with the flag
\* false and has emitted exactly one `rateLimitCleared`; no handler emits that
\* event unless it takes the flag from true to false, so the evaluation that
\* was already scheduled emits none.
ClearEndsRateLimit ==
    [][/\ (Clear /\ rateLimitedInInterval)
            => /\ ~rateLimitedInInterval'
               /\ emittedCount(emitted', "rateLimitCleared") = 1
       /\ emittedCount(emitted', "rateLimitCleared")
            = (IF rateLimitedInInterval /\ ~rateLimitedInInterval' THEN 1 ELSE 0)
       /\ emittedCount(emitted', "rateLimit")
            = (IF ~rateLimitedInInterval /\ rateLimitedInInterval' THEN 1 ELSE 0)]_vars

ClearedWhileRateLimited ==
    /\ emittedCount(emitted, "rateLimitCleared") = 1
    /\ ~rateLimitedInInterval
    /\ rateLimitFlushScheduled
    /\ queue = <<>>
    /\ \E t \in TaskIds : task[t].st = "cleared"
    /\ ~doesIntervalAllowAnother(St)

executing == {t \in TaskIds : task[t].fnLive}

\* C15, as stated: with concurrency fixed, at most `concurrency` task functions
\* are executing, also with per-task timeouts and aborts of running tasks.
ExecutingWithinConcurrency == Cardinality(executing) <= concurrency

\* C15, amended: at most `concurrency` tasks are admitted and not yet settled;
\* a function that is executing after its task has settled belongs to a task
\* that timed out or was aborted while running.
UnsettledWithinConcurrency ==
    /\ Cardinality(tasksIn({"running"})) <= concurrency
    /\ \A t \in executing :
          task[t].st = "settled" => task[t].reason \in {"timeout", "abort"}

ExecutingBeyondConcurrency ==
    /\ Cardinality(executing) > concurrency
    /\ \E t \in executing : task[t].st = "running"

\* C16: no task function is invoked more than once and no task gets both a
\* `completed` and an `error` event: a waiting task is in the queue once, a
\* task that has been dequeued is not in the queue, its function has been
\* invoked at most once and it has at most one event, and a task whose next
\* step has run never starts again.
AtMostOnce ==
    /\ [](\A t \in TaskIds :
            /\ task[t].invoked <= 1
            /\ task[t].completed + task[t].errored <= 1
            /\ task[t].st = "done" => task[t].sound
            /\ Cardinality({i \in 1..Len(queue) : queue[i].run = t})
                  = (IF task[t].st = "waiting" THEN 1 ELSE 0))
    /\ [][\A t \in TaskIds :
            /\ task[t].st = "done" => task'[t].st = "done"
            /\ task[t].st \in {"running", "settled"}
                  => \/ task'[t].st = "done"
                     \/ /\ task'[t].st \in {"running", "settled"}
                        /\ task'[t].invoked = task[t].invoked]_vars

SettledAfterReorderAndPause ==
    \E t, u \in TaskIds :
        /\ t < u
        /\ task[u].st = "done" /\ task[u].sound
        /\ task[t].st = "waiting" /\ task[t].reprio
        /\ isPaused

\* The events named e in the record of the latest handler.
emittedAs(e) == {i \in 1..Len(emitted) : emitted[i].e = e}

\* C17: `idle` is emitted only at a point where size is 0 and pending is 0,
\* `empty` only where size is 0; `empty` is also emitted while tasks run.
IdleOnlyWhenNothingLeft ==
    /\ \A i \in emittedAs("idle") : emitted[i].size = 0 /\ emitted[i].pending = 0
    /\ \A i \in emittedAs("empty") : emitted[i].size = 0

EmptyWhileRunning ==
    /\ \E i \in emittedAs("empty") : emitted[i].pending > 0
    /\ emittedAs("idle") = {}
    /\ \E t \in TaskIds : task[t].st = "done"

hasWork == queue # <<>> \/ pending > 0

\* C18: a step emits `idle` exactly once if it takes the queue from having
\* work to size 0 and pending 0, and not at all otherwise: not when clear(),
\* an assignment to `concurrency`, pause() or start() is applied to a queue
\* that is idle already.
IdleOncePerBecomingIdle ==
    [][Cardinality(emittedAs("idle")') = (IF hasWork /\ ~hasWork' THEN 1 ELSE 0)]_vars

\* C19: a step that takes size from non-zero to zero, by admitting the last
\* waiting task or by clear(), emits `empty`, and no onEmpty() future is
\* outstanding after it.
EmptyOnBecomingEmpty ==
    [][(queue # <<>> /\ queue' = <<>>)
         => (emittedAs("empty")' # {} /\ ~waiters'["empty"])]_vars

\* The events named in names that the latest handler emitted for task t.
emittedFor(t, names) ==
    {i \in 1..Len(emitted) : emitted[i].of = t /\ emitted[i].e \in names}

admissionCount ==
    IF strict THEN getActiveTicksCount(cleanupStrictTicks(St, now)) ELSE intervalCount

\* C21: whenever no evaluation of the rate-limit state is scheduled, the flag
\* is true exactly if a task waits and the admission count has reached
\* intervalCap, also while the queue is paused and after start(), clear() and
\* timer firings.
RateLimitedIffBlocked ==
    ~rateLimitFlushScheduled
        => (rateLimitedInInterval
              <=> (queue # <<>> /\ ~isIntervalIgnored /\ admissionCount >= intervalCap))

\* The evaluations of the rate-limit state that are scheduled.
flushes == {i \in 1..Len(microtasks) : microtasks[i].kind = "flush"}

\* C22: a handler emits `rateLimit` exactly if it takes the flag from false to
\* true and `rateLimitCleared` exactly if it takes it from true to false, so
\* the two events alternate, starting with `rateLimit`; the flag changes only
\* in the one scheduled evaluation or in clear(), however many adds,
\* completions, consumes and rollbacks came before it.
RateLimitEventsAlternate ==
    /\ ~rateLimitedInInterval
    /\ [](Cardinality(flushes) = (IF rateLimitFlushScheduled THEN 1 ELSE 0))
    /\ [](Len(emitted) <= 1)
    /\ [][/\ emittedAs("rateLimit")' # {} <=> (~rateLimitedInInterval /\ rateLimitedInInterval')
          /\ emittedAs("rateLimitCleared")' # {}
                <=> (rateLimitedInInterval /\ ~rateLimitedInInterval')
          /\ rateLimitedInInterval' # rateLimitedInInterval => (RunMicrotask \/ Clear)]_vars

ClearedAfterRollback ==
    /\ emittedAs("rateLimitCleared") # {}
    /\ queue # <<>>
    /\ \E t \in TaskIds : task[t].st \in {"settled", "done"} /\ task[t].signal = "aborted"

\* Whether the callback of a window or resume timer is due and has not run.
timerDue ==
    \/ intervalId # 0 /\ now >= intervalId
    \/ timeoutId # 0 /\ now >= timeoutId

\* C23: a queue that is paused with a task waiting while the rate-limit flag
\* is true, and that stays paused for `interval` ms, gets the flag cleared,
\* with a `rateLimitCleared` event, while it is paused; and a start() called
\* when `interval` ms have passed since the last admission and every due timer
\* has fired admits a waiting task in that call if a concurrency slot is free.
PausedWindowElapses ==
    /\ (isPaused /\ queue # <<>> /\ rateLimitedInInterval /\ now <= lastCall)
          ~> (~isPaused \/ (~rateLimitedInInterval /\ emittedAs("rateLimitCleared") # {}))
    /\ [][(/\ Start
           /\ queue # <<>>
           /\ pending < concurrency
           /\ microtasks = <<>>
           /\ ~timerDue
           /\ now - lastExecutionTime >= interval)
             => Len(queue') < Len(queue)]_vars

\* C24: with intervalCap infinite or interval 0 no window or resume timer is
\* armed, nothing is counted, the rate-limit flag is false, no evaluation is
\* scheduled and no rate-limit event is emitted; and no state is left in which
\* a started queue has a task waiting while a concurrency slot is free.
NoRateLimitWhenIgnored ==
    isIntervalIgnored
        => /\ intervalId = 0
           /\ timeoutId = 0
           /\ intervalCount = 0
           /\ strictTicks = <<>>
           /\ ~rateLimitedInInterval
           /\ ~rateLimitFlushScheduled
           /\ emittedAs("rateLimit") = {}
           /\ emittedAs("rateLimitCleared") = {}
           /\ (~isPaused /\ queue # <<>>) => pending >= concurrency

\* C25: isSaturated is true exactly if a task waits and either the rate-limit
\* flag is true or pending >= concurrency, also after `concurrency` has been
\* lowered below pending.
SaturatedIffFullOrLimited ==
    isSaturated(St) <=> (queue # <<>> /\ (isRateLimited(St) \/ pending >= concurrency))

\* The number of task functions the step invokes.
startedNow == Len(starts') - Len(starts)

DeprecatedOptionCarriesOver ==
    [][(/\ options.carryoverIntervalCount = "absent"
        /\ options.carryoverConcurrencyCount = "true"
        /\ IntervalFire \/ ResumeFire)
          => intervalCount' = pending + startedNow]_vars

\* The waiting tasks other than t, in queue order.
others(q, t) == SelectSeq(q, LAMBDA e : e.run # t)

\* C28: setPriority(id, p) on a waiting task leaves the queue as if the task
\* had been removed and enqueued afresh with priority p: it comes after every
\* waiting task of priority >= p and before every waiting task of priority < p,
\* the other tasks keep their order and priorities, and size is unchanged.
SetPriorityReenqueues ==
    [][\A t \in TaskIds, p \in {0, 1, 2} :
          (task[t].st = "waiting" /\ task'[t].priority = p /\ SetPriority(t, p))
            => /\ Len(queue') = Len(queue)
               /\ others(queue', t) = others(queue, t)
               /\ queue' = enqueue(others(queue, t),
                                   [priority |-> p, id |-> task[t].id, run |-> t])
               /\ \E i \in 1..Len(queue') :
                     /\ queue'[i].run = t
                     /\ queue'[i].priority = p
                     /\ \A j \in 1..(i - 1) : queue'[j].priority >= p
                     /\ \A j \in (i + 1)..Len(queue') : queue'[j].priority < p]_vars

\* A re-prioritised task waits between a task of its own priority and one of
\* a lower priority.
ReprioritisedIntoMiddle ==
    /\ Len(queue) = 3
    /\ task[queue[2].run].reprio
    /\ ~task[queue[1].run].reprio
    /\ ~task[queue[3].run].reprio
    /\ queue[1].priority = queue[2].priority
    /\ queue[3].priority < queue[2].priority

\* C29: a call that throws synchronously leaves the queue as it was, and the
\* calls that throw are: an assignment to `concurrency` of a value that is not
\* a number >= 1 (TypeError), setPriority with a priority that is not a finite
\* number (TypeError), and setPriority with an id that no waiting task has
\* (ReferenceError), a running or finished task's id included.
FailedCallChangesNothing ==
    /\ [][thrown' # "none"
            => /\ emitted' = <<>>
               /\ UNCHANGED <<cfgVars, pending, concurrency, isPaused, queue,
                              intervalCount, intervalEnd, lastExecutionTime,
                              intervalId, timeoutId, strictTicks, strictTicksStartIndex,
                              rateLimitedInInterval, rateLimitFlushScheduled,
                              runningTasks, idAssigner, now, microtasks, task, starts,
                              arrival, waiters>>]_vars
    /\ [](\A v \in JsValues :
            concurrencySetter(St, v).thrown
              = (IF v \in {Num(2), JsInfinity} THEN "none" ELSE "TypeError"))
    /\ [](\A id \in AutoIds, v \in JsValues :
            setPriorityCall(St, id, v).thrown
              = (IF v \notin {Num(0), Num(2)} THEN "TypeError"
                 ELSE IF \E t \in TaskIds : task[t].st = "waiting" /\ task[t].id = id
                      THEN "none" ELSE "ReferenceError"))

\* setPriority has thrown for an id that no waiting task has while one task
\* runs and two wait.
ThrownForUnknownId ==
    /\ thrown = "ReferenceError"
    /\ pending = 1
    /\ Len(queue) = 2

\* The tasks that were added and whose next step has not run yet.
known == {t \in TaskIds : task[t].st \notin {"new", "done"}}

\* C30: an id that add() assigned differs from the id of every other task of
\* the queue, given by the caller or assigned, so setPriority with an id that
\* the caller gave to some task re-prioritises only a task that was given it.
AutoIdIsFresh ==
    /\ \A t, u \in known :
          (t # u /\ task[t].given = NoId) => task[t].id # task[u].id
    /\ \A id \in CallerIds :
          ((\E u \in known : task[u].given = id) /\ findIndex(queue, id) # 0)
             => task[queue[findIndex(queue, id)].run].given = id

\* The futures that the latest call resolved by returning.
resolvedAtOnce == {emitted[i].for : i \in {j \in 1..Len(emitted) : emitted[j].e = "resolved"}}

\* C31: onEmpty(), onIdle() and onPendingZero() called where their condition
\* already holds (size = 0; size = 0 and pending = 0; pending = 0) resolve by
\* the call itself and attach no listener; onPendingZero() does so with
\* pending = 0 even while tasks wait.
SatisfiedCallResolvesAtOnce ==
    /\ [][(OnEmpty /\ queue = <<>>)
            => ("empty" \in resolvedAtOnce' /\ ~waiters'["empty"])]_vars
    /\ [][(OnIdle /\ queue = <<>> /\ pending = 0)
            => ("idle" \in resolvedAtOnce' /\ ~waiters'["idle"])]_vars
    /\ [][(OnPendingZero /\ pending = 0)
            => ("pendingZero" \in resolvedAtOnce' /\ ~waiters'["pendingZero"])]_vars

\* onPendingZero() has resolved at the call in a paused queue with waiting
\* tasks.
PendingZeroWhilePausedWithWork ==
    /\ "pendingZero" \in resolvedAtOnce
    /\ isPaused
    /\ pending = 0
    /\ Len(queue) = 2

\* C32: the future of onError() is rejected by the first `error` event after
\* the call, with the error of that event, and by nothing else: it stays
\* outstanding through every step without an `error` event, and errors before
\* the call or after the rejection reject nothing; the failing task's own
\* future is rejected and the other `error` listeners are called all the same.
OnErrorRejectsOnce ==
    [][ /\ (waiters["error"] /\ emittedAs("error")' # {})
            => /\ ~waiters'["error"]
               /\ Cardinality(emittedAs("rejected")') = 1
               /\ \A i \in emittedAs("rejected")', j \in emittedAs("error")' :
                     /\ emitted'[i].of = emitted'[j].of
                     /\ task'[emitted'[j].of].rejected = 1
        /\ (waiters["error"] /\ emittedAs("error")' = {}) => waiters'["error"]
        /\ ~waiters["error"]
            => /\ emittedAs("rejected")' = {}
               /\ \A j \in emittedAs("error")' : task'[emitted'[j].of].rejected = 1]_vars

\* The future of onError() has been rejected with the error of a task that
\* failed after another task had failed.
RejectedBySecondFailure ==
    /\ emittedAs("rejected") # {}
    /\ \E u \in TaskIds : task[u].st = "done"
    /\ \A u \in TaskIds : task[u].st = "done" => \E i \in emittedAs("rejected") : emitted[i].of > u
    /\ Len(starts) = 2

\* C33: whenever the queue is idle (size = 0 and pending = 0) after a handler
\* has run to completion, neither the window timer nor the resume timer is
\* armed.
IdleReleasesTimers ==
    (queue = <<>> /\ pending = 0) => (intervalId = 0 /\ timeoutId = 0)

\* The queue is idle after the rate limit has held a task back until a later
\* window.
IdleAfterDelayedStart ==
    /\ queue = <<>>
    /\ pending = 0
    /\ microtasks = <<>>
    /\ Len(starts) = 2
    /\ starts[2] > starts[1]

\* The tasks whose next step runs in the step.
finalisedNow == {t \in TaskIds : task[t].st # "done" /\ task'[t].st = "done"}

\* C34: once the signals of all waiting tasks are aborted in a started queue,
\* the queue reaches pending = 0 and size = 0 with every task's future settled
\* exactly once; a task admitted with an aborted signal has its future rejected
\* without its function being invoked and its next step queued, and every next
\* step runs as a microtask of its own, one per step, so no step finalises
\* more than one task however many are aborted.
AbortedTasksDrainFlat ==
    /\ (/\ ~isPaused
         /\ Cardinality(added) = MaxTasks
         /\ queue # <<>>
         /\ \A t \in TaskIds : task[t].st \in {"waiting", "running"} => task[t].signal = "aborted")
          ~> (/\ pending = 0
              /\ queue = <<>>
              /\ \A t \in TaskIds : task[t].st = "done" /\ task[t].sound)
    /\ [][/\ Cardinality(finalisedNow) <= 1
           /\ finalisedNow # {} => (microtasks # <<>> /\ Head(microtasks).kind = "next"
                                     /\ Head(microtasks).of \in finalisedNow)
           /\ \A t \in TaskIds :
                 (task[t].st = "waiting" /\ task[t].signal = "aborted" /\ task'[t].st # "waiting")
                    => /\ task'[t].st = "settled"
                       /\ task'[t].rejected = 1
                       /\ task'[t].invoked = 0
                       /\ \E i \in 1..Len(microtasks') :
                             microtasks'[i] = [kind |-> "next", of |-> t]]_vars

\* Three aborted tasks have been finalised and nothing is left.
AllAbortedAndGone ==
    /\ pending = 0
    /\ queue = <<>>
    /\ starts = <<>>
    /\ \A t \in TaskIds : task[t].st = "done" /\ task[t].sound

\* The conditions under which #tryToStartAnother would start a task now.
admissible ==
    /\ ~isPaused
    /\ queue # <<>>
    /\ pending < concurrency
    /\ doesIntervalAllowAnother(isIntervalPausedAt(St, now).s)

\* The handlers that call the scheduler: add, a next step, the concurrency
\* setter, start, and the two timers.
schedulingEvent ==
    \/ \E sg \in {"none", "aborted", "live"} : Add(0, sg, 0, FALSE)
    \/ (microtasks # <<>> /\ Head(microtasks).kind = "next" /\ RunMicrotask)
    \/ \E c \in {1, 2} : SetConcurrency(c)
    \/ Start
    \/ IntervalFire
    \/ ResumeFire

\* C35: after add, a next step, a concurrency assignment, start, the window
\* timer or the resume timer has run to completion, no further admission is
\* possible: the queue is never left unpaused with a waiting task, a free
\* concurrency slot and a rate limiter that allows another admission.
NoAdmissionLeftAfterEvent == [][admissible' => ~schedulingEvent]_vars

\* C36: in fixed-window mode with no window timer, #isIntervalPausedAt(now)
\* treats the window as still running (arms the resume timer for
\* intervalEnd - now and reports paused) only when intervalEnd > now; when
\* intervalEnd <= now, now = intervalEnd included, it applies the spacing check
\* on the last execution and otherwise resets intervalCount and reports not
\* paused, so a resume timer that fires exactly at intervalEnd arms no
\* zero-delay resume timer.
WindowOverAtItsEnd ==
    /\ []((~strict /\ ~isIntervalIgnored /\ intervalId = 0 /\ intervalEnd > now)
            => LET r == isIntervalPausedAt(St, now)
               IN /\ r.r
                  /\ r.s.timeoutId # 0
                  /\ timeoutId = 0 => r.s.timeoutId = intervalEnd)
    /\ []((~strict /\ ~isIntervalIgnored /\ intervalId = 0 /\ intervalEnd <= now)
            => LET r == isIntervalPausedAt(St, now)
               IN IF lastExecutionTime > 0 /\ now - lastExecutionTime < interval
                  THEN r.r
                  ELSE ~r.r /\ r.s.intervalCount = windowReset(St))
    /\ [][(ResumeFire /\ now = intervalEnd) => timeoutId' # now]_vars

\* A queue without rate limit whose owner listens to the events of a next
\* step.
InitNextStep ==
    InitObserved({{"next", "pendingZero", "active", "empty", "idle"}},
                 {FALSE}, {Infinity}, {0}, {FALSE}, {1, 2}, BOOLEAN)

NextNextStep ==
    \/ Add(0, "none", 0, FALSE)
    \/ \E t \in TaskIds : FnSettle(t, TRUE)
    \/ RunMicrotask
    \/ Pause
    \/ Start

SpecNextStep == InitNextStep /\ [][NextNextStep]_vars

\* The step runs #next.
nextStep == microtasks # <<>> /\ Head(microtasks).kind = "next" /\ RunMicrotask

\* C37 (as stated): a next step decrements pending, emits `next`, then
\* `pendingZero` if pending reached 0, and only then calls the scheduler: no
\* `pendingZero`, `active`, `empty` or `idle` of the step precedes its `next`.
NextIsEmittedFirst ==
    [][nextStep => /\ pending' <= pending
                   /\ emitted' # <<>>
                   /\ emitted'[1].e = "next"]_vars

\* C37 (amended): a next step decrements pending, emits `pendingZero` if
\* pending reached 0, then calls the scheduler once, and emits `next` last:
\* every `active`, `empty` and `idle` of the step is emitted after its
\* `pendingZero` and before its one `next`.
NextIsEmittedLast ==
    [][nextStep =>
          LET log == emitted'
              n == Len(log)
          IN /\ n > 0
             /\ log[n].e = "next"
             /\ log[n].of = Head(microtasks).of
             /\ \A i \in 1..(n - 1) : log[i].e # "next"
             /\ (pending = 1) <=> (log[1].e = "pendingZero")
             /\ \A i \in 2..n : log[i].e # "pendingZero"
             /\ pending' = (pending - 1)
                              + Cardinality({i \in 1..n : log[i].e = "active"})
             /\ Cardinality({i \in 1..n : log[i].e = "active"}) <= 1]_vars

\* The next step of the last running task has emitted `pendingZero`, started a
\* waiting task and emitted `next`, in this order.
NextAfterScheduler ==
    /\ Len(emitted) = 3
    /\ emitted[1].e = "pendingZero"
    /\ emitted[2].e = "active"
    /\ emitted[3].e = "next"

\* queue.add(fn, {signal}) after the task of an earlier add has been finalised:
\* the queue keeps nothing of a finalised task, and the new task takes its
\* place in the run. One such add per run.
AddLater(signal) ==
    /\ Cardinality(added) = MaxTasks
    /\ idAssigner <= MaxTasks + 1
    /\ \E t \in TaskIds :
          /\ task[t].st = "done"
          /\ \A u \in TaskIds : task[u].st = "done" => t <= u
          /\ Commit(add(St, t, [id |-> NoId, priority |-> 0, signal |-> signal,
                                timeout |-> 0, throws |-> FALSE]))
    /\ UNCHANGED now

\* Fixed windows with intervalCap = 1, with and without carry-over, two
\* concurrency slots, tasks aborted before they start, and assignments to
\* `concurrency`.
InitCount == InitWith({FALSE}, {1}, {2}, BOOLEAN, {2}, {TRUE})

NextCount ==
    \/ \E sg \in {"none", "aborted"} : Add(0, sg, 0, FALSE)
    \/ \E sg \in {"none", "aborted"} : AddLater(sg)
    \/ \E t \in TaskIds : FnSettle(t, TRUE)
    \/ RunMicrotask
    \/ Tick
    \/ IntervalFire
    \/ ResumeFire
    \/ \E c \in {1, 2} : SetConcurrency(c)

SpecCount == InitCount /\ [][NextCount]_vars

TasksAreConserved ==
    /\ [](/\ Cardinality(added)
               = Len(queue) + pending + Cardinality(tasksIn({"done"}))
                   + Cardinality(tasksIn({"cleared"}))
          /\ Len(queue) = Cardinality(tasksIn({"waiting"}))
          /\ pending = Cardinality(tasksIn({"running", "settled"}))
          /\ pending >= 0)
    /\ [][\A t \in TaskIds :
             /\ task[t].st = "waiting"
                   => task'[t].st \in {"waiting", "running", "settled", "cleared"}
             /\ task[t].st = "running" => task'[t].st \in {"running", "settled"}
             /\ task[t].st = "settled" => task'[t].st \in {"settled", "done"}
             /\ task[t].st \in {"done", "cleared"} => task'[t].st = task[t].st]_vars

\* One task has been discarded by clear(), one has been finalised and one is
\* running.
ClearedDoneAndRunning ==
    /\ Cardinality(tasksIn({"cleared"})) = 1
    /\ Cardinality(tasksIn({"done"})) = 1
    /\ pending = 1
    /\ queue = <<>>

\* Two concurrency slots and no rate limit: tasks that succeed, fail or are
\* aborted before they start, with pause, start, clear and setPriority.
InitRunning == InitWith({FALSE}, {Infinity}, {0}, {FALSE}, {2}, {TRUE})

NextRunning ==
    \/ \E sg \in {"none", "aborted"} : Add(0, sg, 0, FALSE)
    \/ \E t \in TaskIds, ok \in BOOLEAN : FnSettle(t, ok)
    \/ RunMicrotask
    \/ Pause
    \/ Start
    \/ Clear
    \/ \E t \in TaskIds : SetPriority(t, 1)

SpecRunning == InitRunning /\ [][NextRunning]_vars

\* The next steps that are queued and have not run.
deferredNext == {i \in 1..Len(microtasks) : microtasks[i].kind = "next"}

\* C40: the number of entries of runningTasks is at most pending: it is
\* pending less the number of next steps that are outstanding, so the two are
\* equal when none is; clear(), pause() and setPriority() neither add nor
\* remove an entry.
RunningTasksWithinPending ==
    /\ [](/\ Cardinality(runningTasks) <= pending
          /\ Cardinality(runningTasks) = pending - Cardinality(deferredNext)
          /\ deferredNext = {} => Cardinality(runningTasks) = pending
          /\ runningTasks = tasksIn({"running"}))
    /\ [][runningTasks' # runningTasks
            => ~(Clear \/ Pause \/ \E t \in TaskIds, p \in {0, 1, 2} : SetPriority(t, p))]_vars

\* clear() has discarded a waiting task while another task runs, and a third
\* task has left runningTasks with its next step still queued.
RunningFewerThanPending ==
    /\ Cardinality(runningTasks) = 1
    /\ pending = 2
    /\ tasksIn({"cleared"}) # {}

====
